---------------------------- MODULE Spec2Model ----------------------------
(***************************************************************************)
(* kronjob: expansion of an abstract-job tree into resolved job records    *)
(* and their projection to Job / CronJob objects.                          *)
(*                                                                         *)
(* The repository holds two generations of the program:                    *)
(*   "ns"  : src/kronjob.py          (namespaces, namespace overrides,     *)
(*                                    marshmallow schema)                  *)
(*   "pkg" : src/kronjob/_kronjob.py (jobs only, jsonschema, defaults,     *)
(*                                    api versions)                        *)
(* Both are modelled; the variable `variant` says which one a behaviour    *)
(* runs.                                                                   *)
(*                                                                         *)
(* Data representation                                                     *)
(*   dict            a function whose DOMAIN is the set of keys present    *)
(*   str (name)      a sequence of one-character strings, so that len()    *)
(*                   and '-'.join are computed, not assumed                *)
(*   str (others)    a TLA+ string                                         *)
(*   list            a sequence                                            *)
(*   None            NoneStr where a str is expected, NoneDict where a     *)
(*                   dict is expected, <<>> for an optional value          *)
(***************************************************************************)
EXTENDS Integers, Sequences, FiniteSets, TLC

VARIABLES
    variant,          \* "ns" or "pkg": which module is running
    abstract_jobs,    \* the caller's input tree, as written (camelCase keys)
    input,            \* the tree as _build_aggregate_jobs is given it
    pc,               \* "ready", "aggregated", "returned" or "raised"
    aggregate_jobs,   \* the list _build_aggregate_jobs returned
    k8s_api_version,  \* argument of build_k8s_objects (pkg)
    defaults,         \* argument of build_k8s_objects (pkg)
    k8s_objects,      \* the list build_k8s_objects returned
    raised,           \* the exception type that left build_k8s_objects
    stage,            \* the step of build_k8s_objects that raised
    messages,         \* the violations the exception carries
    caller_tree,      \* the caller's tree object, as the call left it
    defaults_doc      \* the caller's defaults document object, as the call left it

vars == <<variant, abstract_jobs, input, pc, aggregate_jobs, k8s_api_version,
          defaults, k8s_objects, raised, stage, messages, caller_tree, defaults_doc>>

-----------------------------------------------------------------------------
(* Bounds of the model *)

MaxJobs == 2
MaxNamespaces == 2

-----------------------------------------------------------------------------
(* Python values *)

EmptyDict == <<>>
NoneStr == "<None>"
NoneDict == ("__None__" :> TRUE)

IsNone(d) == DOMAIN d = {"__None__"}

\* key in d
Has(d, k) == k \in DOMAIN d

\* d.get(k, default)
Get(d, k, default) == IF k \in DOMAIN d THEN d[k] ELSE default

\* d.get(k) where the result is tested for truth: <<>> is None, <<v>> is v
GetOpt(d, k) == IF k \in DOMAIN d THEN <<d[k]>> ELSE <<>>

\* d.update(e): the keys of e win
Update(d, e) == e @@ d

\* d without key k (the dict left behind by d.pop(k, ...))
Pop(d, k) == [x \in DOMAIN d \ {k} |-> d[x]]

\* filter(None, parts): drops None and the empty string
RECURSIVE FilterNone(_)
FilterNone(parts) ==
    IF Len(parts) = 0 THEN <<>>
    ELSE LET p == Head(parts)
         IN  (IF Len(p) > 0 /\ Len(p[1]) > 0 THEN <<p[1]>> ELSE <<>>)
             \o FilterNone(Tail(parts))

\* sep.join(parts)
RECURSIVE Join(_, _)
Join(sep, parts) ==
    IF Len(parts) = 0 THEN <<>>
    ELSE IF Len(parts) = 1 THEN parts[1]
    ELSE parts[1] \o sep \o Join(sep, Tail(parts))

Dash == <<"-">>

\* an object that statements can change in place: whose it is ("caller" for an
\* argument as the caller holds it, "call" for one the call made) and its value
Object(owner, value) == [owner |-> owner, val |-> value]

\* mutant of deepcopy: the object itself is handed on
deepcopy_alias(obj) == obj

\* copy.deepcopy(obj): a new object of the call, structurally equal to obj
deepcopy(obj) == Object("call", obj.val)

\* the caller's value after an in-place change of target that leaves it `changed`
AfterChange(target, changed, before) ==
    IF target.owner = "caller" THEN changed ELSE before

-----------------------------------------------------------------------------
(* src/kronjob.py ("ns"): aggregation *)

\* mutant of _namespace: the pair's namespace is preferred to the job's own
_namespace_pair_first(_job, namespace, base_namespace) ==
    IF namespace # NoneStr THEN namespace ELSE Get(_job, "namespace", base_namespace)

\* _job.get('namespace', namespace if namespace is not None else base_namespace)
_namespace_of(_job, namespace, base_namespace) ==
    Get(_job, "namespace", IF namespace # NoneStr THEN namespace ELSE base_namespace)

\* the closure _build_aggregate_job(job, namespace); its free variables
\* base_job, base_namespace and namespace_overrides are parameters here
_build_aggregate_job_ns(base_job, base_namespace, namespace_overrides, job, namespace) ==
    LET _job == IF IsNone(job) THEN EmptyDict ELSE job
        _namespace == _namespace_of(_job, namespace, base_namespace)
        _namespace_override == Get(namespace_overrides, _namespace, EmptyDict)
        merged == Update(Update(base_job, _namespace_override), _job)
        with_namespace ==
            IF _namespace # NoneStr
            THEN Update(merged, "namespace" :> _namespace)
            ELSE merged
        with_name ==
            IF Has(with_namespace, "name")
            THEN Update(with_namespace,
                        "name" :> Join(Dash, FilterNone(<<GetOpt(base_job, "name"),
                                                          GetOpt(_namespace_override, "name"),
                                                          GetOpt(_job, "name")>>)))
            ELSE with_namespace
    IN  IF Has(with_name, "env")
        THEN Update(with_name,
                    "env" :> Get(base_job, "env", <<>>)
                             \o Get(_namespace_override, "env", <<>>)
                             \o Get(_job, "env", <<>>))
        ELSE with_name

\* [... for namespace in namespaces] for one job
RECURSIVE ForNamespaces_ns(_, _, _, _, _)
ForNamespaces_ns(base_job, base_namespace, namespace_overrides, job, namespaces) ==
    IF Len(namespaces) = 0 THEN <<>>
    ELSE <<_build_aggregate_job_ns(base_job, base_namespace, namespace_overrides,
                                   job, Head(namespaces))>>
         \o ForNamespaces_ns(base_job, base_namespace, namespace_overrides,
                             job, Tail(namespaces))

\* mutant of ForJobs_ns: namespaces in the outer loop, jobs in the inner one
ForJobs_ns_namespaces_outer(base_job, base_namespace, namespace_overrides, jobs, namespaces) ==
    [k \in 1..(Len(jobs) * Len(namespaces)) |->
        _build_aggregate_job_ns(base_job, base_namespace, namespace_overrides,
                                jobs[((k - 1) % Len(jobs)) + 1],
                                namespaces[((k - 1) \div Len(jobs)) + 1])]

\* [_build_aggregate_job(job, namespace) for job in jobs for namespace in namespaces]
RECURSIVE ForJobs_ns(_, _, _, _, _)
ForJobs_ns(base_job, base_namespace, namespace_overrides, jobs, namespaces) ==
    IF Len(jobs) = 0 THEN <<>>
    ELSE ForNamespaces_ns(base_job, base_namespace, namespace_overrides,
                          Head(jobs), namespaces)
         \o ForJobs_ns(base_job, base_namespace, namespace_overrides,
                       Tail(jobs), namespaces)

_build_aggregate_jobs_ns(tree) ==
    LET base_namespace == Get(tree, "namespace", NoneStr)
        jobs == GetOpt(tree, "jobs")                \* <<>> is None
        namespaces == GetOpt(tree, "namespaces")    \* <<>> is None
        namespace_overrides == Get(tree, "namespace_overrides", EmptyDict)
        base_job == Pop(Pop(Pop(tree, "jobs"), "namespaces"), "namespace_overrides")
    IN  IF Len(jobs) = 0 /\ Len(namespaces) = 0
        THEN <<_build_aggregate_job_ns(base_job, base_namespace, namespace_overrides,
                                       tree, NoneStr)>>
        ELSE ForJobs_ns(base_job, base_namespace, namespace_overrides,
                        IF Len(jobs) > 0 THEN jobs[1] ELSE <<NoneDict>>,
                        IF Len(namespaces) > 0 THEN namespaces[1] ELSE <<NoneStr>>)

\* the caller's tree after the call: base_job = copy.deepcopy(abstract_jobs)
\* takes the three pops; the closure only reads job fragments and base_job
TreeAfter_build_aggregate_jobs_ns(tree) ==
    LET base_job == deepcopy(Object("caller", tree))
    IN  AfterChange(base_job,
                    Pop(Pop(Pop(tree, "jobs"), "namespaces"), "namespace_overrides"),
                    tree)

-----------------------------------------------------------------------------
(* src/kronjob/_kronjob.py ("pkg"): aggregation *)

_build_aggregate_job_pkg(base_job, job) ==
    LET merged == Update(base_job, job)
        with_name ==
            IF Has(merged, "name")
            THEN Update(merged,
                        "name" :> Join(Dash, FilterNone(<<GetOpt(base_job, "name"),
                                                          GetOpt(job, "name")>>)))
            ELSE merged
    IN  IF Has(with_name, "env")
        THEN Update(with_name,
                    "env" :> Get(base_job, "env", <<>>) \o Get(job, "env", <<>>))
        ELSE with_name

\* [_build_aggregate_job(job) for job in jobs]
RECURSIVE ForJobs_pkg(_, _)
ForJobs_pkg(base_job, jobs) ==
    IF Len(jobs) = 0 THEN <<>>
    ELSE <<_build_aggregate_job_pkg(base_job, Head(jobs))>>
         \o ForJobs_pkg(base_job, Tail(jobs))

_build_aggregate_jobs_pkg(tree) ==
    LET base_job == Pop(tree, "jobs")
        jobs == Get(tree, "jobs", <<EmptyDict>>)
    IN  ForJobs_pkg(base_job, jobs)

\* the caller's tree after the call: base_job = copy.deepcopy(abstract_jobs)
\* takes the pop
TreeAfter_build_aggregate_jobs_pkg(tree) ==
    LET base_job == deepcopy(Object("caller", tree))
    IN  AfterChange(base_job, Pop(tree, "jobs"), tree)

-----------------------------------------------------------------------------
(* src/kronjob.py ("ns"): _AbstractJobsSchema().load *)

\* attribute name |-> load_from key, for the declared fields the model uses
load_from ==
    [ env |-> "env", image |-> "image", name |-> "name", namespace |-> "namespace",
      schedule |-> "schedule", label_key |-> "labelKey",
      container_name |-> "containerName",
      concurrency_policy |-> "concurrencyPolicy",
      restart_policy |-> "restartPolicy",
      failed_jobs_history_limit |-> "failedJobsHistoryLimit",
      successful_jobs_history_limit |-> "successfulJobsHistoryLimit",
      jobs |-> "jobs", namespaces |-> "namespaces",
      namespace_overrides |-> "namespaceOverrides" ]

\* the input key a field is read from: its own name, else its load_from key
InputKey(frag, attr) == IF attr \in DOMAIN frag THEN attr ELSE load_from[attr]

\* deserialisation of a nested fragment: declared fields only, excluded ones dropped
LoadFragment(frag, exclude) ==
    [attr \in {a \in DOMAIN load_from \ exclude : InputKey(frag, a) \in DOMAIN frag}
        |-> frag[InputKey(frag, attr)]]

\* deserialisation of the root: jobs and namespace_overrides are nested schemas
Load(tree) ==
    LET flat == LoadFragment(tree, {})
        with_jobs ==
            IF Has(flat, "jobs")
            THEN Update(flat, "jobs" :>
                    [i \in DOMAIN flat.jobs |->
                        LoadFragment(flat.jobs[i],
                                     {"jobs", "namespaces", "namespace_overrides"})])
            ELSE flat
    IN  IF Has(with_jobs, "namespace_overrides")
        THEN Update(with_jobs, "namespace_overrides" :>
                [ns \in DOMAIN with_jobs.namespace_overrides |->
                    LoadFragment(with_jobs.namespace_overrides[ns],
                                 {"jobs", "namespace", "namespaces", "namespace_overrides"})])
        ELSE with_jobs

-----------------------------------------------------------------------------
(* Validation *)

\* crontab's verdict on a schedule, as an abstract predicate: of the schedules
\* the model draws, "* * * * *" is a cron expression and "invalid-schedule" is not
CronValid(schedule) == schedule = "* * * * *"

MaxNameLen == 52
MinHistoryLimit == 1

\* ns: the field validators of one (sub)schema instance, in declaration order;
\* marshmallow collects every field error of the load
FragmentFieldErrors_ns(frag) ==
    (IF Has(frag, "failedJobsHistoryLimit")
        /\ frag["failedJobsHistoryLimit"] < MinHistoryLimit
     THEN <<"failedJobsHistoryLimit">> ELSE <<>>)
    \o
    (IF Has(frag, "schedule")
        /\ ~(frag["schedule"] = "once" \/ CronValid(frag["schedule"]))
     THEN <<"schedule">> ELSE <<>>)

RECURSIVE JobsFieldErrors_ns(_)
JobsFieldErrors_ns(jobs) ==
    IF Len(jobs) = 0 THEN <<>>
    ELSE FragmentFieldErrors_ns(Head(jobs)) \o JobsFieldErrors_ns(Tail(jobs))

RECURSIVE OverridesFieldErrors_ns(_, _)
OverridesFieldErrors_ns(overrides, keys) ==
    IF keys = {} THEN <<>>
    ELSE LET k == CHOOSE x \in keys : TRUE
         IN  FragmentFieldErrors_ns(overrides[k])
             \o OverridesFieldErrors_ns(overrides, keys \ {k})

\* mutant of FieldErrors_ns: the namespace overrides are not validated
FieldErrors_ns_without_overrides(tree) ==
    FragmentFieldErrors_ns(tree) \o JobsFieldErrors_ns(Get(tree, "jobs", <<>>))

FieldErrors_ns(tree) ==
    FragmentFieldErrors_ns(tree)
    \o JobsFieldErrors_ns(Get(tree, "jobs", <<>>))
    \o OverridesFieldErrors_ns(Get(tree, "namespaceOverrides", EmptyDict),
                               DOMAIN Get(tree, "namespaceOverrides", EmptyDict))

_REQUIRED_FIELDS_ns == {"name", "image", "namespace", "schedule"}

\* ns: the loop of validate_schema over the resolved records; the first record
\* that lacks a required key raises
RECURSIVE RequiredLoop_ns(_)
RequiredLoop_ns(jobs) ==
    IF Len(jobs) = 0 THEN <<>>
    ELSE IF ~(_REQUIRED_FIELDS_ns \subseteq DOMAIN Head(jobs)) THEN <<"required">>
    ELSE RequiredLoop_ns(Tail(jobs))

validate_schema_ns(data) == RequiredLoop_ns(_build_aggregate_jobs_ns(data))

\* pkg: jsonschema.validate(abstract_jobs, _SCHEMA); schema.json is not among the
\* sources, the numeric bound is the rule the specification and the tests state
RECURSIVE JobsSchemaErrors_pkg(_)
JobsSchemaErrors_pkg(jobs) ==
    IF Len(jobs) = 0 THEN FALSE
    ELSE \/ /\ Has(Head(jobs), "failedJobsHistoryLimit")
            /\ Head(jobs)["failedJobsHistoryLimit"] < MinHistoryLimit
         \/ JobsSchemaErrors_pkg(Tail(jobs))

jsonschema_validate_pkg(tree) ==
    IF \/ /\ Has(tree, "failedJobsHistoryLimit")
          /\ tree["failedJobsHistoryLimit"] < MinHistoryLimit
       \/ JobsSchemaErrors_pkg(Get(tree, "jobs", <<>>))
    THEN <<"failedJobsHistoryLimit">> ELSE <<>>

_REQUIRED_FIELDS_pkg == {"name", "image", "schedule"}

_cron_is_valid(cron_schedule) == CronValid(cron_schedule)

\* mutant of _validate_aggregate_job: a name of the maximal length is rejected too
_validate_aggregate_job_at_limit(job) ==
    IF ~(_REQUIRED_FIELDS_pkg \subseteq DOMAIN job) THEN <<"required">>
    ELSE IF ~(job["schedule"] = "once" \/ _cron_is_valid(job["schedule"]))
    THEN <<"schedule">>
    ELSE IF Len(job["name"]) >= MaxNameLen THEN <<"name">>
    ELSE <<>>

\* pkg: the message _validate_aggregate_job raises for a record, <<>> if none
_validate_aggregate_job(job) ==
    IF ~(_REQUIRED_FIELDS_pkg \subseteq DOMAIN job) THEN <<"required">>
    ELSE IF ~(job["schedule"] = "once" \/ _cron_is_valid(job["schedule"]))
    THEN <<"schedule">>
    ELSE IF Len(job["name"]) > MaxNameLen THEN <<"name">>
    ELSE <<>>

\* mutant of ValidateLoop_pkg: every record's violation is gathered
RECURSIVE ValidateLoop_pkg_collect_all(_)
ValidateLoop_pkg_collect_all(jobs) ==
    IF Len(jobs) = 0 THEN <<>>
    ELSE _validate_aggregate_job(Head(jobs)) \o ValidateLoop_pkg_collect_all(Tail(jobs))

\* mutant of ValidateLoop_pkg: only the first record is validated
ValidateLoop_pkg_first_record(jobs) ==
    IF Len(jobs) = 0 THEN <<>> ELSE _validate_aggregate_job(Head(jobs))

\* pkg: for aggregate_job in aggregate_jobs: _validate_aggregate_job(aggregate_job)
RECURSIVE ValidateLoop_pkg(_)
ValidateLoop_pkg(jobs) ==
    IF Len(jobs) = 0 THEN <<>>
    ELSE IF _validate_aggregate_job(Head(jobs)) # <<>>
    THEN _validate_aggregate_job(Head(jobs))
    ELSE ValidateLoop_pkg(Tail(jobs))

-----------------------------------------------------------------------------
(* Projection to Job / CronJob objects.  An object is a record; a field that
   may be None is an optional value (<<>> or <<v>>). *)

\* mutant of IsOneShot: the test is inverted
IsOneShot_inverted(aggregate_job) == aggregate_job["schedule"] # "once"

\* aggregate_job['schedule'] == 'once'
IsOneShot(aggregate_job) == aggregate_job["schedule"] = "once"

\* the subscripts aggregate_job['name'] and aggregate_job['schedule'] of
\* build_k8s_object raise KeyError on a record without the key
RaisesKeyError(aggregate_job, keys) == ~(keys \subseteq DOMAIN aggregate_job)

_DEFAULTS ==
    [ concurrency_policy |-> "Forbid", failed_jobs_history_limit |-> 10,
      restart_policy |-> "Never", successful_jobs_history_limit |-> 1 ]

\* ns: aggregate_job.get(key, _DEFAULTS.get(key))
_get_arg_ns(aggregate_job, key) ==
    IF Has(aggregate_job, key) THEN <<aggregate_job[key]>> ELSE GetOpt(_DEFAULTS, key)

build_k8s_object_ns(aggregate_job) ==
    LET labels == (Get(aggregate_job, "label_key", "kronjob/job") :> aggregate_job["name"])
        common ==
            [ labels |-> labels,
              name |-> _get_arg_ns(aggregate_job, "name"),
              namespace |-> _get_arg_ns(aggregate_job, "namespace"),
              env |-> GetOpt(aggregate_job, "env"),
              container_name |-> Get(aggregate_job, "containerName", <<"j", "o", "b">>),
              image |-> _get_arg_ns(aggregate_job, "image"),
              restart_policy |-> _get_arg_ns(aggregate_job, "restart_policy") ]
    IN  IF IsOneShot(aggregate_job)
        THEN [kind |-> "Job", api_version |-> "batch/v1"] @@ common
        ELSE [ kind |-> "CronJob", api_version |-> "batch/v2alpha1",
               concurrency_policy |-> _get_arg_ns(aggregate_job, "concurrency_policy"),
               failed_jobs_history_limit |->
                   _get_arg_ns(aggregate_job, "failed_jobs_history_limit"),
               schedule |-> _get_arg_ns(aggregate_job, "schedule"),
               successful_jobs_history_limit |->
                   _get_arg_ns(aggregate_job, "successful_jobs_history_limit") ]
             @@ common

\* [build_k8s_object(job) for job in aggregate_jobs]
RECURSIVE BuildLoop_ns(_)
BuildLoop_ns(jobs) ==
    IF Len(jobs) = 0 THEN <<>>
    ELSE <<build_k8s_object_ns(Head(jobs))>> \o BuildLoop_ns(Tail(jobs))

\* what a call leaves behind: the exception (type, step, violations carried) or
\* the objects returned
Outcome(type, step, msgs, jobs, objects) ==
    [ raised |-> type, stage |-> step, messages |-> msgs,
      aggregate_jobs |-> jobs, k8s_objects |-> objects ]

\* ns: build_k8s_objects.  load runs the field validators of the whole tree and
\* then, no field having failed, validate_schema on the root
build_k8s_objects_ns(tree) ==
    LET data == Load(tree)
    IN  IF FieldErrors_ns(tree) # <<>>
        THEN Outcome("ValidationError", "fields", FieldErrors_ns(tree), <<>>, <<>>)
        ELSE IF validate_schema_ns(data) # <<>>
        THEN Outcome("ValidationError", "schema", validate_schema_ns(data), <<>>, <<>>)
        ELSE IF \E i \in DOMAIN _build_aggregate_jobs_ns(data) :
                    RaisesKeyError(_build_aggregate_jobs_ns(data)[i], {"name", "schedule"})
        THEN Outcome("KeyError", "build", <<>>, _build_aggregate_jobs_ns(data), <<>>)
        ELSE Outcome("None", "", <<>>, _build_aggregate_jobs_ns(data),
                     BuildLoop_ns(_build_aggregate_jobs_ns(data)))

\* ns: the caller's tree after build_k8s_objects: the __root marker is set on
\* copy.deepcopy(abstract_jobs) before load; load returns an object of its own,
\* which is what _build_aggregate_jobs is given
TreeAfter_build_k8s_objects_ns(tree) ==
    LET copied == deepcopy(Object("caller", tree))
    IN  AfterChange(copied, Update(tree, "__root" :> TRUE), tree)

_K8S_API_VERSION == <<1, 9>>

\* pkg: the version test at the head of build_k8s_object
VersionSupported(version_arg) ==
    LET version == IF version_arg = <<>> THEN _K8S_API_VERSION ELSE version_arg
    IN  ~(version[1] # 1 \/ version[2] < 5)

\* pkg: the defaults build_k8s_object works with, lines 115-121
FilledDefaults(aggregate_job, defaults_arg) ==
    LET d0 == IF IsNone(defaults_arg) THEN EmptyDict ELSE defaults_arg
        d1 == IF Has(d0, "containerName") THEN d0
              ELSE Update(d0, "containerName" :>
                              (aggregate_job["name"] \o <<"-", "j", "o", "b">>))
        d2 == IF Has(d1, "labels") THEN d1 ELSE Update(d1, "labels" :> EmptyDict)
    IN  IF Has(d2, "labelKey") THEN d2 ELSE Update(d2, "labelKey" :> "kronjob/job")

\* pkg: the caller's defaults document after build_k8s_object: the additions
\* are made on copy.deepcopy(defaults), or on a new dict when defaults is None
DefaultsAfter_build_k8s_object_pkg(aggregate_job, defaults_arg) ==
    IF IsNone(defaults_arg) THEN defaults_arg
    ELSE AfterChange(deepcopy(Object("caller", defaults_arg)),
                     FilledDefaults(aggregate_job, defaults_arg), defaults_arg)

\* A labels value of a tree is a dict object: [obj |-> which object, val |-> its
\* entries].  obj 0 is the one the base holds; two job fragments with the same
\* obj hold one and the same dict (as a YAML alias or a reused Python dict gives).
\* pkg: the dict object _get_arg('labels') yields in the call for record i.
\* The deep copy of the tree keeps what the job fragments share shared, and
\* update(job) hands the fragment's object to the record; the base's object is
\* copied anew for each record (line 48), the defaults' for each call (line 115).
LabelsObject(aggregate_job, i) ==
    IF Has(aggregate_job, "labels")
    THEN IF aggregate_job["labels"].obj = 0
         THEN [origin |-> "base", n |-> i]
         ELSE [origin |-> "job", n |-> aggregate_job["labels"].obj]
    ELSE [origin |-> "defaults", n |-> i]

\* pkg: the labels objects after build_k8s_object for record i:
\* labels[_get_arg('labelKey')] = _get_arg('name') writes into the object itself
LabelsAfter_build_k8s_object_pkg(aggregate_job, i, defaults_arg, heap) ==
    LET filled == FilledDefaults(aggregate_job, defaults_arg)
        ref == LabelsObject(aggregate_job, i)
        entries == IF ref \in DOMAIN heap THEN heap[ref]
                   ELSE IF Has(aggregate_job, "labels") THEN aggregate_job["labels"].val
                   ELSE filled["labels"]
        labelKey == Get(aggregate_job, "labelKey", filled["labelKey"])
    IN  (ref :> Update(entries, labelKey :> Get(aggregate_job, "name", <<>>))) @@ heap

\* pkg: build_k8s_object for record i, for a supported version; the object
\* holds its labels dict by reference
build_k8s_object_pkg(aggregate_job, i, version_arg, defaults_arg) ==
    LET version == IF version_arg = <<>> THEN _K8S_API_VERSION ELSE version_arg
        cronjob_api_version ==
            IF version[2] >= 8 THEN "batch/v1beta1" ELSE "batch/v2alpha1"
        filled == FilledDefaults(aggregate_job, defaults_arg)
        _get_arg(key) == IF Has(aggregate_job, key) THEN <<aggregate_job[key]>>
                         ELSE GetOpt(filled, key)
        common ==
            [ labels |-> LabelsObject(aggregate_job, i),
              name |-> _get_arg("name"),
              namespace |-> _get_arg("namespace"),
              env |-> GetOpt(aggregate_job, "env"),
              container_name |-> _get_arg("containerName")[1],
              image |-> _get_arg("image"),
              restart_policy |-> _get_arg("restartPolicy") ]
    IN  IF IsOneShot(aggregate_job)
        THEN [kind |-> "Job", api_version |-> "batch/v1"] @@ common
        ELSE [ kind |-> "CronJob", api_version |-> cronjob_api_version,
               concurrency_policy |-> _get_arg("concurrencyPolicy"),
               failed_jobs_history_limit |-> _get_arg("failedJobsHistoryLimit"),
               schedule |-> _get_arg("schedule"),
               successful_jobs_history_limit |-> _get_arg("successfulJobsHistoryLimit") ]
             @@ common

\* [build_k8s_object(job, ...) for job in aggregate_jobs], from record i on:
\* the objects built, the labels objects and the caller's defaults document as
\* the calls leave them
RECURSIVE BuildLoop_pkg(_, _, _, _, _)
BuildLoop_pkg(jobs, i, version_arg, defaults_arg, heap) ==
    IF i > Len(jobs)
    THEN [objects |-> <<>>, heap |-> heap, defaults |-> defaults_arg]
    ELSE LET rest == BuildLoop_pkg(
                         jobs, i + 1, version_arg,
                         DefaultsAfter_build_k8s_object_pkg(jobs[i], defaults_arg),
                         LabelsAfter_build_k8s_object_pkg(jobs[i], i, defaults_arg, heap))
         IN  [rest EXCEPT !.objects =
                 <<build_k8s_object_pkg(jobs[i], i, version_arg, defaults_arg)>> \o @]

\* the objects as the caller reads them once the call has returned
Returned_pkg(built) ==
    [k \in DOMAIN built.objects |->
        [built.objects[k] EXCEPT !.labels = built.heap[@]]]

\* pkg: build_k8s_objects
build_k8s_objects_pkg(tree, version_arg, defaults_arg) ==
    LET jobs == _build_aggregate_jobs_pkg(tree)
    IN  IF jsonschema_validate_pkg(tree) # <<>>
        THEN Outcome("ValidationError", "jsonschema", jsonschema_validate_pkg(tree),
                     <<>>, <<>>)
        ELSE IF ValidateLoop_pkg(jobs) # <<>>
        THEN Outcome("ValidationException", "records", ValidateLoop_pkg(jobs), jobs, <<>>)
        ELSE IF Len(jobs) > 0 /\ ~VersionSupported(version_arg)
        THEN Outcome("ValueError", "build", <<"Unsupported kubernetes api version">>,
                     jobs, <<>>)
        ELSE IF \E i \in DOMAIN jobs :
                    RaisesKeyError(jobs[i],
                                   {"schedule"}
                                   \cup (IF ~IsNone(defaults_arg)
                                            /\ Has(defaults_arg, "containerName")
                                         THEN {} ELSE {"name"}))
        THEN Outcome("KeyError", "build", <<>>, jobs, <<>>)
        ELSE Outcome("None", "", <<>>, jobs,
                     Returned_pkg(BuildLoop_pkg(jobs, 1, version_arg, defaults_arg,
                                                EmptyDict)))

\* pkg: the caller's defaults document after build_k8s_objects
DefaultsAfter_build_k8s_objects_pkg(tree, version_arg, defaults_arg) ==
    IF build_k8s_objects_pkg(tree, version_arg, defaults_arg).raised = "None"
    THEN BuildLoop_pkg(_build_aggregate_jobs_pkg(tree), 1, version_arg, defaults_arg,
                       EmptyDict).defaults
    ELSE defaults_arg

\* pkg: the caller's tree after build_k8s_objects: jsonschema.validate only
\* reads; _build_aggregate_jobs is given the caller's tree itself
TreeAfter_build_k8s_objects_pkg(tree) ==
    IF jsonschema_validate_pkg(tree) # <<>> THEN tree
    ELSE TreeAfter_build_aggregate_jobs_pkg(tree)

-----------------------------------------------------------------------------
(* The inputs a behaviour draws *)

\* a key that is absent, or present with one of vals
Opt(k, vals) == {EmptyDict} \cup {k :> v : v \in vals}

SeqsUpTo(S, n) == UNION {[1..k -> S] : k \in 0..n}

LongName(n) == [i \in 1..n |-> "x"]

\* the fields a family of trees varies one at a time
Foci(v) ==
    {"name", "env", "schedule", "failedJobsHistoryLimit", "containerName", "restartPolicy"}
    \cup (IF v = "pkg" THEN {"image", "labels"} ELSE {})

\* the entries of a labels dict of a tree
LabelEntries == ("another" :> <<"l", "a", "b", "e", "l">>)

\* what the base record holds for the fields a family does not vary
BaseDefault ==
    ("name" :> <<"p">>) @@ ("image" :> "example.com/base") @@ ("schedule" :> "* * * * *")

BaseVals(v, f) ==
    CASE f = "name" ->
            {<<>>, <<"p">>} \cup (IF v = "pkg" THEN {LongName(MaxNameLen \div 2)} ELSE {})
      [] f = "env" -> {<<"A">>}
      [] f = "schedule" ->
            {"* * * * *"} \cup (IF v = "pkg" THEN {"invalid-schedule"} ELSE {})
      [] f = "image" -> {"example.com/base"}
      [] f = "failedJobsHistoryLimit" -> {0, 3}
      [] f = "containerName" -> {<<"m", "a", "i", "n">>}
      [] f = "restartPolicy" -> {"OnFailure"}
      [] f = "labels" -> {[obj |-> 0, val |-> LabelEntries]}

OverrideVals(f) ==
    CASE f = "name" -> {<<"o">>}
      [] f = "env" -> {<<"B">>}
      [] f = "schedule" -> {"once", "invalid-schedule"}
      [] OTHER -> {}

JobVals(v, f) ==
    CASE f = "name" ->
            {<<"c">>} \cup (IF v = "pkg"
                            THEN {LongName((MaxNameLen \div 2) - 1),
                                  LongName(MaxNameLen \div 2)}
                            ELSE {})
      [] f = "env" -> {<<"A", "C">>}
      [] f = "schedule" -> {"once"} \cup (IF v = "pkg" THEN {"invalid-schedule"} ELSE {})
      [] f = "image" -> {"example.com/base:v2"}
      [] f = "containerName" -> {<<"s", "i", "d", "e">>}
      [] f = "restartPolicy" -> {"Always"}
      [] f = "labels" -> {[obj |-> o, val |-> LabelEntries] : o \in 1..MaxJobs}
      [] OTHER -> {}

Namespaces == {"test", "prod"}

BaseRecords(v, f) ==
    {b @@ ns @@ Pop(BaseDefault, f) :
        b \in Opt(f, BaseVals(v, f)),
        ns \in IF v = "ns" THEN Opt("namespace", {"test"}) ELSE {EmptyDict}}

\* a job fragment varies the family's field or names its own namespace; a
\* fragment with labels may have a name of its own too
Fragments(v, f) ==
    Opt(f, JobVals(v, f))
    \cup (IF v = "ns" THEN {"namespace" :> "prod"} ELSE {})
    \cup (IF f = "labels"
          THEN {("name" :> <<"c">>) @@ ("labels" :> [obj |-> 1, val |-> LabelEntries])}
          ELSE {})

JobsOpts(v, f) == Opt("jobs", SeqsUpTo(Fragments(v, f), MaxJobs))

NamespacesOpts(v) ==
    IF v = "ns" THEN Opt("namespaces", SeqsUpTo(Namespaces, MaxNamespaces))
    ELSE {EmptyDict}

OverridesOpts(v, f) ==
    IF v = "ns"
    THEN Opt("namespaceOverrides",
             {ns :> (f :> val) : ns \in Namespaces, val \in OverrideVals(f)})
    ELSE {EmptyDict}

Trees(v) ==
    UNION {{b @@ j @@ n @@ o :
                b \in BaseRecords(v, f), j \in JobsOpts(v, f),
                n \in NamespacesOpts(v), o \in OverridesOpts(v, f)} : f \in Foci(v)}

Versions == {<<>>, <<1, 7>>, <<1, 4>>, <<2, 0>>}

DefaultsDocs ==
    {NoneDict,
     ("labelKey" :> "team") @@ ("image" :> "example.com/default")
        @@ ("restartPolicy" :> "Never") @@ ("labels" :> ("owner" :> <<"o", "p", "s">>))}

-----------------------------------------------------------------------------
(* The state machine: one call per behaviour *)

Init ==
    /\ variant \in {"ns", "pkg"}
    /\ abstract_jobs \in Trees(variant)
    /\ input = IF variant = "ns" THEN Load(abstract_jobs) ELSE abstract_jobs
    /\ pc = "ready"
    /\ aggregate_jobs = <<>>
    /\ k8s_api_version = <<>>
    /\ defaults = NoneDict
    /\ k8s_objects = <<>>
    /\ raised = "None"
    /\ stage = ""
    /\ messages = <<>>
    /\ caller_tree = abstract_jobs
    /\ defaults_doc = NoneDict

\* a call of _build_aggregate_jobs(input); in ns its callers (validate_schema,
\* build_k8s_objects) pass the deserialised tree
CallBuildAggregateJobs ==
    /\ pc = "ready"
    /\ aggregate_jobs' = IF variant = "ns"
                         THEN _build_aggregate_jobs_ns(input)
                         ELSE _build_aggregate_jobs_pkg(input)
    /\ caller_tree' = IF variant = "ns"
                      THEN TreeAfter_build_aggregate_jobs_ns(input)
                      ELSE TreeAfter_build_aggregate_jobs_pkg(input)
    /\ pc' = "aggregated"
    /\ UNCHANGED <<variant, abstract_jobs, input, k8s_api_version, defaults, k8s_objects,
                   raised, stage, messages, defaults_doc>>

Finish(outcome) ==
    /\ aggregate_jobs' = outcome.aggregate_jobs
    /\ k8s_objects' = outcome.k8s_objects
    /\ raised' = outcome.raised
    /\ stage' = outcome.stage
    /\ messages' = outcome.messages
    /\ pc' = IF outcome.raised = "None" THEN "returned" ELSE "raised"

\* a call of build_k8s_objects of src/kronjob.py
CallBuildK8sObjects_ns ==
    /\ pc = "ready"
    /\ variant = "ns"
    /\ Finish(build_k8s_objects_ns(abstract_jobs))
    /\ caller_tree' = TreeAfter_build_k8s_objects_ns(abstract_jobs)
    /\ UNCHANGED <<variant, abstract_jobs, input, k8s_api_version, defaults, defaults_doc>>

\* a call of build_k8s_objects of src/kronjob/_kronjob.py
CallBuildK8sObjects_pkg ==
    /\ pc = "ready"
    /\ variant = "pkg"
    /\ \E version \in Versions, defaults_arg \in DefaultsDocs :
          /\ k8s_api_version' = version
          /\ defaults' = defaults_arg
          /\ Finish(build_k8s_objects_pkg(abstract_jobs, version, defaults_arg))
          /\ defaults_doc' = DefaultsAfter_build_k8s_objects_pkg(abstract_jobs, version,
                                                                 defaults_arg)
    /\ caller_tree' = TreeAfter_build_k8s_objects_pkg(abstract_jobs)
    /\ UNCHANGED <<variant, abstract_jobs, input>>

Next ==
    \/ CallBuildAggregateJobs
    \/ CallBuildK8sObjects_ns
    \/ CallBuildK8sObjects_pkg

Spec == Init /\ [][Next]_vars

-----------------------------------------------------------------------------
(* What the claims speak of, read off the input tree *)

ControlKeys == {"jobs", "namespaces", "namespace_overrides", "namespaceOverrides"}

BaseFields == [k \in DOMAIN input \ ControlKeys |-> input[k]]

JobCount == IF Has(input, "jobs") THEN Len(input["jobs"]) ELSE 1

NamespaceCount == IF Has(input, "namespaces") THEN Len(input["namespaces"]) ELSE 1

\* job fragment j; the empty fragment when the tree has no jobs
JobFragment(j) == IF Has(input, "jobs") THEN input["jobs"][j] ELSE EmptyDict

\* namespace n of the namespaces sequence; the absent marker when there is none
PairNamespace(n) == IF Has(input, "namespaces") THEN input["namespaces"][n] ELSE NoneStr

EffectiveNamespace(j, n) ==
    IF Has(JobFragment(j), "namespace") THEN JobFragment(j)["namespace"]
    ELSE IF PairNamespace(n) # NoneStr THEN PairNamespace(n)
    ELSE Get(BaseFields, "namespace", NoneStr)

OverrideFragment(j, n) ==
    Get(Get(input, "namespace_overrides", EmptyDict), EffectiveNamespace(j, n), EmptyDict)

Pairs == (1..JobCount) \X (1..NamespaceCount)

RecordAt(j, n) == aggregate_jobs[(j - 1) * NamespaceCount + n]

Aggregated == pc = "aggregated" /\ Len(aggregate_jobs) = JobCount * NamespaceCount

EndsWith(s, t) == Len(t) <= Len(s) /\ SubSeq(s, Len(s) - Len(t) + 1, Len(s)) = t

\* the name values of (base, namespace override, job fragment), in that order,
\* an absent name counting as empty
NameSources(j, n) ==
    <<Get(BaseFields, "name", <<>>), Get(OverrideFragment(j, n), "name", <<>>),
      Get(JobFragment(j), "name", <<>>)>>

NonEmpty(x) == Len(x) > 0

\* the resolved records of the tree, as build_k8s_objects computes them
Records ==
    IF variant = "ns" THEN _build_aggregate_jobs_ns(input)
    ELSE _build_aggregate_jobs_pkg(input)

Called == pc \in {"returned", "raised"}

ValidationRaised == raised \in {"ValidationError", "ValidationException"}

RequiredFields ==
    IF variant = "ns" THEN {"name", "image", "schedule", "namespace"}
    ELSE {"name", "image", "schedule"}

LacksRequired(job) == ~(RequiredFields \subseteq DOMAIN job)

ScheduleOk(schedule) == schedule = "once" \/ CronValid(schedule)


-----------------------------------------------------------------------------
(* Claims about _build_aggregate_jobs *)

\* C1: a tree with none of jobs, namespaces and namespaceOverrides aggregates
\* to exactly one record, and that record equals the tree's own fields (name
\* not joined with itself, env not duplicated).
C1_LeafTreeYieldsItsFields ==
    (pc = "aggregated" /\ DOMAIN abstract_jobs \cap ControlKeys = {})
        => aggregate_jobs = <<input>>

\* C2: the call returns JobCount * NamespaceCount records (an absent sequence
\* counts 1, an empty one 0), and the record at position (j, n), jobs outer and
\* namespaces inner, is the one made from job fragment j and namespace n: it
\* carries that fragment's fields, its name and env end with the fragment's,
\* its namespace is the one resolved for the pair, and whenever the tree names
\* jobs or namespaces it is exactly the merge of that pair.
C2_CrossProductInOrder ==
    pc = "aggregated" =>
        /\ Len(aggregate_jobs) = JobCount * NamespaceCount
        /\ \A p \in Pairs :
            LET j == p[1]
                n == p[2]
                job == JobFragment(j)
                rec == RecordAt(j, n)
            IN  /\ \A f \in DOMAIN job \ {"name", "env"} : Has(rec, f) /\ rec[f] = job[f]
                /\ Has(job, "name") => Has(rec, "name") /\ EndsWith(rec["name"], job["name"])
                /\ Has(job, "env") => Has(rec, "env") /\ EndsWith(rec["env"], job["env"])
                /\ IF EffectiveNamespace(j, n) # NoneStr
                   THEN Has(rec, "namespace") /\ rec["namespace"] = EffectiveNamespace(j, n)
                   ELSE ~Has(rec, "namespace")
                /\ (variant = "ns" /\ (Has(input, "jobs") \/ Has(input, "namespaces")))
                      => rec = _build_aggregate_job_ns(
                                   BaseFields, Get(BaseFields, "namespace", NoneStr),
                                   Get(input, "namespace_overrides", EmptyDict),
                                   job, PairNamespace(n))
                /\ variant = "pkg" => rec = _build_aggregate_job_pkg(BaseFields, job)

\* C2 witness: two jobs and two namespaces gave four records, and the records
\* of (job 1, namespace 2) and (job 2, namespace 1) differ
C2_Witness ==
    /\ pc = "aggregated"
    /\ JobCount = 2 /\ NamespaceCount = 2
    /\ Len(aggregate_jobs) = 4
    /\ aggregate_jobs[2] # aggregate_jobs[3]
    /\ PairNamespace(1) # PairNamespace(2)
    /\ JobFragment(1) # JobFragment(2)

\* C3: in every resolved record, every field other than name, env and
\* namespace has the job fragment's value if the fragment carries it, else the
\* value of the namespace override keyed by the effective namespace, else the
\* base value; the tree without jobs counts with the empty job fragment.
C3_OverridePrecedence ==
    Aggregated =>
        \A p \in Pairs :
            LET job == JobFragment(p[1])
                ov == OverrideFragment(p[1], p[2])
                rec == RecordAt(p[1], p[2])
            IN  \A f \in (DOMAIN job \cup DOMAIN ov \cup DOMAIN BaseFields)
                            \ ({"name", "env", "namespace"} \cup ControlKeys) :
                    /\ Has(rec, f)
                    /\ rec[f] = IF Has(job, f) THEN job[f]
                                ELSE IF Has(ov, f) THEN ov[f]
                                ELSE BaseFields[f]

\* C4: when base, namespace override or job fragment has a name, the resolved
\* name is the '-'-join of their non-empty names in that order, each source
\* once; when none has a name the record has no name.
C4_NameJoinedOncePerSource ==
    Aggregated =>
        \A p \in Pairs :
            LET rec == RecordAt(p[1], p[2])
                named == Has(BaseFields, "name") \/ Has(OverrideFragment(p[1], p[2]), "name")
                         \/ Has(JobFragment(p[1]), "name")
            IN  IF named
                THEN /\ Has(rec, "name")
                     /\ rec["name"] = Join(Dash, SelectSeq(NameSources(p[1], p[2]), NonEmpty))
                ELSE ~Has(rec, "name")

\* C5: when base, namespace override or job fragment has env, the resolved env
\* is base env ++ override env ++ job env, a missing side being empty: order
\* kept, nothing dropped, nothing repeated.
C5_EnvConcatenatedOnce ==
    Aggregated =>
        \A p \in Pairs :
            LET rec == RecordAt(p[1], p[2])
                ov == OverrideFragment(p[1], p[2])
                job == JobFragment(p[1])
            IN  (Has(BaseFields, "env") \/ Has(ov, "env") \/ Has(job, "env"))
                    => /\ Has(rec, "env")
                       /\ rec["env"] = Get(BaseFields, "env", <<>>) \o Get(ov, "env", <<>>)
                                       \o Get(job, "env", <<>>)

\* C6: the effective namespace of a pair is the job fragment's namespace, else
\* the pair's namespace, else the base namespace, else none; the record's
\* namespace is the effective one when there is one, and the namespace override
\* that takes part in the record is the one keyed by it: its fields are in the
\* record, with its value wherever neither base nor job fragment has the field,
\* and no field of another override is.
C6_EffectiveNamespace ==
    Aggregated =>
        \A p \in Pairs :
            LET rec == RecordAt(p[1], p[2])
                eff == EffectiveNamespace(p[1], p[2])
                ov == OverrideFragment(p[1], p[2])
                job == JobFragment(p[1])
            IN  /\ IF eff # NoneStr
                   THEN Has(rec, "namespace") /\ rec["namespace"] = eff
                   ELSE ~Has(rec, "namespace")
                /\ \A f \in DOMAIN ov :
                      /\ Has(rec, f)
                      /\ (~Has(BaseFields, f) /\ ~Has(job, f)) => rec[f] = ov[f]
                /\ (DOMAIN rec \ ControlKeys)
                      \subseteq (DOMAIN BaseFields \cup DOMAIN ov \cup DOMAIN job
                                 \cup {"namespace"})

\* C6 witness: a job fragment with its own namespace, paired with another
\* namespace, picked up the override keyed by its own namespace
C6_Witness ==
    /\ Aggregated
    /\ \E p \in Pairs :
          /\ Has(JobFragment(p[1]), "namespace")
          /\ PairNamespace(p[2]) \notin {NoneStr, JobFragment(p[1])["namespace"]}
          /\ Has(BaseFields, "namespace")
          /\ RecordAt(p[1], p[2])["namespace"] = JobFragment(p[1])["namespace"]
          /\ \E f \in DOMAIN OverrideFragment(p[1], p[2]) :
                /\ ~Has(BaseFields, f) /\ ~Has(JobFragment(p[1]), f)
                /\ RecordAt(p[1], p[2])[f] = OverrideFragment(p[1], p[2])[f]

-----------------------------------------------------------------------------
(* Claims about build_k8s_objects *)

\* the rules a fragment of the tree must meet where it is written
FragmentValid(frag) ==
    /\ Has(frag, "schedule") => ScheduleOk(frag["schedule"])
    /\ Has(frag, "failedJobsHistoryLimit") => frag["failedJobsHistoryLimit"] >= MinHistoryLimit

\* every fragment of the tree, used by a record or not, meets them
TreeValid ==
    /\ FragmentValid(abstract_jobs)
    /\ \A i \in DOMAIN Get(abstract_jobs, "jobs", <<>>) :
          FragmentValid(abstract_jobs["jobs"][i])
    /\ \A ns \in DOMAIN Get(abstract_jobs, "namespaceOverrides", EmptyDict) :
          FragmentValid(abstract_jobs["namespaceOverrides"][ns])

\* a resolved record with all required fields and valid values
RecordValid(job) ==
    /\ ~LacksRequired(job)
    /\ ScheduleOk(job["schedule"])
    /\ variant = "pkg" => Len(job["name"]) <= MaxNameLen
    /\ Has(job, "failedJobsHistoryLimit") => job["failedJobsHistoryLimit"] >= MinHistoryLimit
    /\ Has(job, "failed_jobs_history_limit")
          => job["failed_jobs_history_limit"] >= MinHistoryLimit

ApiVersionOk == variant = "pkg" => VersionSupported(k8s_api_version)

AllOrNothing(recs) ==
    (\E i \in DOMAIN recs : LacksRequired(recs[i]))
        => (pc = "raised" /\ ValidationRaised /\ k8s_objects = <<>>)

Violations(job) ==
    (IF LacksRequired(job) THEN <<"required">> ELSE <<>>)
    \o (IF Has(job, "schedule") /\ ~ScheduleOk(job["schedule"])
        THEN <<"schedule">> ELSE <<>>)
    \o (IF variant = "pkg" /\ Has(job, "name") /\ Len(job["name"]) > MaxNameLen
        THEN <<"name">> ELSE <<>>)

RECURSIVE ViolationsOf(_)
ViolationsOf(jobs) ==
    IF Len(jobs) = 0 THEN <<>>
    ELSE Violations(Head(jobs)) \o ViolationsOf(Tail(jobs))

\* the call failed in the validation of the resolved records
RecordCheckFailed == pc = "raised" /\ stage \in {"records", "schema"}

\* C8 as stated: the error of a failed record validation lists every
\* violation found, not only the first.
C8_Original == RecordCheckFailed => messages = ViolationsOf(Records)

\* C8 amended: the error of a failed record validation is a single error that
\* carries one violation only, the first one met: the first offending record
\* in output order and, within it, missing required field before invalid
\* schedule before over-long name.
C8_FirstViolationOnly ==
    RecordCheckFailed =>
        LET found == ViolationsOf(Records)
        IN  /\ Len(messages) = 1
            /\ found # <<>>
            /\ messages[1] = found[1]

\* C8 witness: the records break several rules of more than one kind and the
\* call raised from the record validation
C8_Witness ==
    /\ RecordCheckFailed
    /\ LET found == ViolationsOf(Records)
       IN  Len(found) >= 2 /\ \E i \in DOMAIN found : found[i] # found[1]

\* C9: of a call that returned, object i is a Job exactly when the schedule of
\* record i is "once" and a CronJob otherwise, and the objects are as many as
\* the records and in their order.
C9_KindBySchedule ==
    pc = "returned" =>
        LET recs == Records
        IN  /\ Len(k8s_objects) = Len(recs)
            /\ \A i \in DOMAIN recs :
                  /\ k8s_objects[i]["kind"] = "Job" <=> recs[i]["schedule"] = "once"
                  /\ recs[i]["schedule"] # "once" => k8s_objects[i]["kind"] = "CronJob"
                  /\ k8s_objects[i]["name"] = <<recs[i]["name"]>>

\* C9 witness: a call returned a Job followed by a CronJob
C9_Witness ==
    /\ pc = "returned"
    /\ Len(k8s_objects) = 2
    /\ k8s_objects[1]["kind"] = "Job" /\ Records[1]["schedule"] = "once"
    /\ k8s_objects[2]["kind"] = "CronJob" /\ Records[2]["schedule"] # "once"

\* C10: when the schedule of a resolved record is neither "once" nor a valid
\* cron expression, the call fails with a validation error and returns no
\* object, also when the schedule came from a namespace override.
C10_InvalidScheduleFails ==
    Called =>
        LET recs == Records
        IN  (\E i \in DOMAIN recs :
                Has(recs[i], "schedule") /\ ~ScheduleOk(recs[i]["schedule"]))
            => (pc = "raised" /\ ValidationRaised /\ k8s_objects = <<>>)

\* C10 witness: the base schedule is valid, the job fragment has none, the
\* record got an invalid one from its namespace override, and the call raised
C10_Witness ==
    /\ pc = "raised" /\ ValidationRaised
    /\ Has(BaseFields, "schedule") /\ ScheduleOk(BaseFields["schedule"])
    /\ Has(input, "jobs")
    /\ \E p \in Pairs :
          /\ ~Has(JobFragment(p[1]), "schedule")
          /\ Has(OverrideFragment(p[1], p[2]), "schedule")
          /\ ~ScheduleOk(OverrideFragment(p[1], p[2])["schedule"])
          /\ Records[(p[1] - 1) * NamespaceCount + p[2]]["schedule"]
                = OverrideFragment(p[1], p[2])["schedule"]

-----------------------------------------------------------------------------
(* Claims about what a call leaves behind *)

\* C11: after a call of _build_aggregate_jobs or of build_k8s_objects, returned
\* or raised, the tree the caller passed is structurally equal to what it was
\* before the call: jobs, namespaces and the namespace overrides are still
\* there, no __root marker has been added, no nested value has changed.
C11_InputTreeUnchanged ==
    /\ pc = "aggregated" => caller_tree = input
    /\ Called => caller_tree = abstract_jobs

\* C11 witness: build_k8s_objects raised on a tree that carries jobs,
\* namespaces and namespace overrides, and the caller still holds all three
C11_Witness ==
    /\ pc = "raised"
    /\ {"jobs", "namespaces", "namespaceOverrides"} \subseteq DOMAIN abstract_jobs
    /\ {"jobs", "namespaces", "namespaceOverrides"} \subseteq DOMAIN caller_tree
    /\ ~Has(caller_tree, "__root")

\* C12: no record _build_aggregate_jobs returns holds one of the expansion
\* control keys (jobs, namespaces, namespace overrides), whatever the tree, a
\* tree with namespace overrides but neither jobs nor namespaces included.
C12_NoControlKeysInRecords ==
    pc = "aggregated" =>
        \A i \in DOMAIN aggregate_jobs : DOMAIN aggregate_jobs[i] \cap ControlKeys = {}

-----------------------------------------------------------------------------
(* Claims about build_k8s_object *)

\* the projected fields the model carries: the key of the resolved record and
\* the field of the object
ProjectedFields ==
    IF variant = "ns"
    THEN {<<"container_name", "container_name">>, <<"restart_policy", "restart_policy">>,
          <<"concurrency_policy", "concurrency_policy">>,
          <<"failed_jobs_history_limit", "failed_jobs_history_limit">>,
          <<"successful_jobs_history_limit", "successful_jobs_history_limit">>,
          <<"image", "image">>, <<"namespace", "namespace">>}
    ELSE {<<"containerName", "container_name">>, <<"restartPolicy", "restart_policy">>,
          <<"concurrencyPolicy", "concurrency_policy">>,
          <<"failedJobsHistoryLimit", "failed_jobs_history_limit">>,
          <<"successfulJobsHistoryLimit", "successful_jobs_history_limit">>,
          <<"image", "image">>, <<"namespace", "namespace">>}

\* the default of a projected field for a record that lacks it, as an optional
\* value: built in, or from the defaults document
DefaultOf(rec, key) ==
    IF variant = "ns"
    THEN CASE key = "container_name" -> <<<<"j", "o", "b">>>>
           [] key = "restart_policy" -> <<"Never">>
           [] key = "concurrency_policy" -> <<"Forbid">>
           [] key = "failed_jobs_history_limit" -> <<10>>
           [] key = "successful_jobs_history_limit" -> <<1>>
           [] OTHER -> <<>>
    ELSE IF ~IsNone(defaults) /\ Has(defaults, key) THEN <<defaults[key]>>
    ELSE IF key = "containerName" THEN <<rec["name"] \o <<"-", "j", "o", "b">>>>
    ELSE <<>>

\* a field of an object as an optional value
FieldOf(obj, field) == IF field = "container_name" THEN <<obj[field]>> ELSE obj[field]

\* C13: in every object build_k8s_object builds, each projected field carries
\* the value of the resolved record whenever the record has the field, and the
\* default (built in, or from the defaults document) only when the record
\* lacks it.
C13_ProjectedFields ==
    pc = "returned" =>
        LET recs == Records
        IN  \A i \in DOMAIN k8s_objects :
                \A pf \in ProjectedFields :
                    pf[2] \in DOMAIN k8s_objects[i]
                        => FieldOf(k8s_objects[i], pf[2])
                              = IF Has(recs[i], pf[1]) THEN <<recs[i][pf[1]]>>
                                ELSE DefaultOf(recs[i], pf[1])

ResolvedLabels(rec) ==
    IF Has(rec, "labels") THEN rec["labels"].val
    ELSE IF variant = "pkg" /\ ~IsNone(defaults) /\ Has(defaults, "labels")
    THEN defaults["labels"]
    ELSE EmptyDict

\* the label key resolved for a record
ResolvedLabelKey(rec) ==
    IF variant = "ns" THEN Get(rec, "label_key", "kronjob/job")
    ELSE IF Has(rec, "labelKey") THEN rec["labelKey"]
    ELSE IF ~IsNone(defaults) /\ Has(defaults, "labelKey") THEN defaults["labelKey"]
    ELSE "kronjob/job"

\* C15: of a call of build_k8s_objects that returned, the labels of object i
\* are exactly the labels resolved for record i (its own, else the defaults',
\* else none) plus the entry from record i's label key to record i's resolved
\* name, so that nothing written for another record is in object i; and the
\* defaults document the caller passed is as it was.
C15_LabelsPerObject ==
    pc = "returned" =>
        LET recs == Records
        IN  /\ \A i \in DOMAIN k8s_objects :
                  k8s_objects[i]["labels"]
                      = (ResolvedLabelKey(recs[i]) :> recs[i]["name"])
                        @@ ResolvedLabels(recs[i])
            /\ defaults_doc = defaults

====
